---------------------------- MODULE Spec2Model ----------------------------
(***************************************************************************)
(* MATS backend (src/backend/main.py): the in-memory status store, the     *)
(* request handlers upload / analyze / status / results, and the analysis  *)
(* workflow that runs as a background task of the event loop.              *)
(*                                                                         *)
(* Strings that the code builds by concatenation are sequences of tokens,  *)
(* so that "; ".join(...) and f"{tool}: {msg}" are real concatenations.    *)
(* Optional[...] fields are <<>> (None) or <<x>> (a value).                *)
(* A workflow task gives up the event loop only at asyncio.sleep (line     *)
(* 339): the adapters are coroutines without a suspension point and call   *)
(* the blocking subprocess.run, so one action is the code between two      *)
(* suspension points.                                                      *)
(***************************************************************************)
EXTENDS Naturals, Sequences, FiniteSets, TLC

\* ------------------------------------------------------------------ bounds
MaxJobs == 2        \* uploads
MaxRuns == 2        \* analyze requests that add a task
MaxTools == 2       \* length of a tool list submitted to the running server
MaxFlowTools == 3   \* length of the tool list of a single workflow run
MaxClientTools == 3 \* length of the tool list of a single run that clients poll
MaxProgressTools == 50  \* length of the tool list of a run whose progress is followed
MaxQuarkRuns == 2   \* calls of the rule scanner in a run

\* ------------------------------------------------------------- data model
None == <<>>
Some(x) == <<x>>

IdNames == <<"id1", "id2", "id3", "id4">>
JobIds == {IdNames[i] : i \in 1..MaxJobs}

ToolNames == {"jadx", "apktool", "quark", "androguard", "frida", "mitmproxy", "objection"}

RECURSIVE SeqsUpTo(_, _)
SeqsUpTo(S, n) ==
    IF n = 0 THEN {<<>>}
    ELSE LET shorter == SeqsUpTo(S, n - 1)
         IN  shorter \cup {Append(s, x) : s \in {q \in shorter : Len(q) = n - 1}, x \in S}

\* The tool lists a client submits to the running server: one tool with an
\* adapter, one without autonomous execution, one unknown name.
SubmitNames == {"jadx", "frida", "objection"}
SubmitLists == SeqsUpTo(SubmitNames, MaxTools)

\* The tool lists of a single run that clients poll.
ClientLists == SeqsUpTo(SubmitNames, MaxClientTools)

\* The tool lists of a single workflow run: every name the workflow tells apart.
FlowLists == SeqsUpTo(ToolNames, MaxFlowTools)

pending_only_tools == {"frida", "mitmproxy"}

AnalysisStatus(id) ==
    [apk_id |-> id, status |-> "pending", progress |-> 0,
     current_tool |-> None, results |-> None, error |-> None]

\* A Python dict: entries in insertion order, assignment to an existing key
\* keeps the key's position.
Keys(d) == {d[i].key : i \in DOMAIN d}
Get(d, k) == d[CHOOSE i \in DOMAIN d : d[i].key = k].val
DictSet(d, k, v) ==
    IF k \in Keys(d)
    THEN [i \in DOMAIN d |-> IF d[i].key = k THEN [key |-> k, val |-> v] ELSE d[i]]
    ELSE Append(d, [key |-> k, val |-> v])

RECURSIVE Join(_, _)
Join(parts, sep) ==
    IF parts = <<>> THEN <<>>
    ELSE IF Len(parts) = 1 THEN parts[1]
    ELSE parts[1] \o sep \o Join(Tail(parts), sep)

HasError(result) == "error" \in DOMAIN result

\* ---------------------------------------------------------------- adapters
\* What the environment does during one adapter call: whether
\* check_tool_available finds the tool, how the tool's process ends, and for
\* the rule scanner whether the rule cache exists and how quark --setup ends.
ProcOutcomes == {"exit0", "exit1", "timeout", "oserror"}

EnvOk ==
    [available |-> TRUE, proc |-> "exit0", manifest |-> TRUE, rules |-> TRUE,
     setup |-> "exit0", rules_after |-> TRUE, json |-> TRUE]
EnvMissing == [EnvOk EXCEPT !.available = FALSE]
EnvExit1 == [EnvOk EXCEPT !.proc = "exit1"]

EnvSetupFails == [EnvOk EXCEPT !.rules = FALSE, !.setup = "exit1", !.rules_after = FALSE]

Envs == {EnvOk, EnvMissing}
EnvTimeout == [EnvOk EXCEPT !.proc = "timeout"]

FlowEnvs == {EnvOk, EnvMissing, EnvExit1, EnvSetupFails, EnvTimeout}

OutputDir(apk_id, leaf) == <<"results/", apk_id, "/", leaf>>

run_jadx(env, output_dir) ==
    IF ~env.available
    THEN [error |-> <<"JADX not found. Please install JADX.">>]
    ELSE CASE env.proc = "exit0" ->
                [status |-> "success", output_dir |-> output_dir,
                 message |-> "Decompilation completed"]
           [] env.proc = "exit1" -> [error |-> <<"JADX failed: ", "<stderr>">>]
           [] env.proc = "timeout" -> [error |-> <<"<timed out after 300 seconds>">>]
           [] OTHER -> [error |-> <<"<exception text>">>]

run_apktool(env, output_dir) ==
    IF ~env.available
    THEN [error |-> <<"APKTool not found. Please install APKTool.">>]
    ELSE CASE env.proc = "exit0" ->
                [status |-> "success", output_dir |-> output_dir,
                 manifest_exists |-> env.manifest,
                 message |-> "APK decoded successfully"]
           [] env.proc = "exit1" -> [error |-> <<"APKTool failed: ", "<stderr>">>]
           [] env.proc = "timeout" -> [error |-> <<"<timed out after 300 seconds>">>]
           [] OTHER -> [error |-> <<"<exception text>">>]

quark_scan(env) ==
    CASE env.proc = "exit0" ->
            IF env.json
            THEN [status |-> "success", threats |-> "<threats>", score |-> "<score>",
                  message |-> "Quark analysis completed"]
            ELSE [status |-> "success", raw_output |-> "<stdout>",
                  message |-> "Quark analysis completed"]
      [] env.proc = "exit1" -> [error |-> <<"Quark failed: ", "<stderr>">>]
      [] env.proc = "timeout" -> [error |-> <<"<timed out after 300 seconds>">>]
      [] OTHER -> [error |-> <<"<exception text>">>]

\* One subprocess.run of run_quark: the command, whether the rule cache
\* existed when it was invoked, and how the process ended (for the setup
\* also whether the cache exists afterwards).
SetupCall(env) ==
    [cmd |-> "quark --setup", rules |-> env.rules, outcome |-> env.setup,
     rules_after |-> env.rules_after]
ScanCall(env, rules) == [cmd |-> "quark -a", rules |-> rules, outcome |-> env.proc]

\* QuarkRun with a slip: after a setup that exits 0 the cache is not
\* looked at again.
QuarkRun_TrustsSetup(env) ==
    IF ~env.available
    THEN [result |-> [error |-> <<"Quark Engine not found. Install with: pip install quark-engine">>],
          calls |-> <<>>]
    ELSE IF ~env.rules
    THEN CASE env.setup = "timeout" ->
                [result |-> [error |-> <<"Quark rules download timed out. Run quark --setup manually.">>],
                 calls |-> <<SetupCall(env)>>]
           [] env.setup = "oserror" ->
                [result |-> [error |-> <<"Failed to prepare Quark rules: ", "<exception text>",
                                         ". Run quark --setup manually.">>],
                 calls |-> <<SetupCall(env)>>]
           [] env.setup = "exit1" ->
                [result |-> [error |-> <<"Quark rules are missing and automatic setup failed. Run quark --setup manually to download rules.">>,
                             details |-> "<setup output>"],
                 calls |-> <<SetupCall(env)>>]
           [] OTHER ->
                [result |-> quark_scan(env),
                 calls |-> <<SetupCall(env), ScanCall(env, env.rules_after)>>]
    ELSE [result |-> quark_scan(env), calls |-> <<ScanCall(env, env.rules)>>]

\* run_quark: the dict it returns and the commands it invoked on the way.
QuarkRun(env) ==
    IF ~env.available
    THEN [result |-> [error |-> <<"Quark Engine not found. Install with: pip install quark-engine">>],
          calls |-> <<>>]
    ELSE IF ~env.rules
    THEN CASE env.setup = "timeout" ->
                [result |-> [error |-> <<"Quark rules download timed out. Run quark --setup manually.">>],
                 calls |-> <<SetupCall(env)>>]
           [] env.setup = "oserror" ->
                [result |-> [error |-> <<"Failed to prepare Quark rules: ", "<exception text>",
                                         ". Run quark --setup manually.">>],
                 calls |-> <<SetupCall(env)>>]
           [] env.setup = "exit1" \/ ~env.rules_after ->
                [result |-> [error |-> <<"Quark rules are missing and automatic setup failed. Run quark --setup manually to download rules.">>,
                             details |-> "<setup output>"],
                 calls |-> <<SetupCall(env)>>]
           [] OTHER ->
                [result |-> quark_scan(env),
                 calls |-> <<SetupCall(env), ScanCall(env, env.rules_after)>>]
    ELSE [result |-> quark_scan(env), calls |-> <<ScanCall(env, env.rules)>>]

run_quark(env) == QuarkRun(env).result

run_androguard(env) ==
    IF ~env.available
    THEN [error |-> <<"AndroGuard not found. Install with: pip install androguard">>]
    ELSE CASE env.proc = "exit0" ->
                [status |-> "success", output |-> "<stdout>",
                 message |-> "AndroGuard analysis completed"]
           [] env.proc = "exit1" -> [error |-> <<"AndroGuard failed: ", "<stderr or stdout>">>]
           [] env.proc = "timeout" ->
                [error |-> <<"AndroGuard timed out after 600 seconds. The APK may be very large or complex.">>]
           [] OTHER -> [error |-> <<"<exception text>">>]

frida_result ==
    [status |-> "pending",
     message |-> "Frida requires device connection. Use objection for runtime analysis."]
mitmproxy_result ==
    [status |-> "pending",
     message |-> "MITMProxy requires active proxy setup. Configure manually for network analysis."]

\* ------------------------------------------------- double arithmetic
\* Python floats are IEEE-754 binary64: a significand of SignificandBits
\* bits, every operation rounded to nearest, ties to even.  A significand
\* is a sequence of bits, most significant first; a double is
\* [bits, frac]: the integer the bits spell, divided by 2^frac.
SignificandBits == 53

RECURSIVE BitsToNat(_)
BitsToNat(b) ==
    IF b = <<>> THEN 0 ELSE 2 * BitsToNat(SubSeq(b, 1, Len(b) - 1)) + b[Len(b)]

\* b without its leading zeros.
StripZeros(b) ==
    IF \A i \in DOMAIN b : b[i] = 0 THEN <<>>
    ELSE LET first == CHOOSE i \in DOMAIN b : b[i] = 1 /\ \A j \in 1..(i - 1) : b[j] = 0
         IN  SubSeq(b, first, Len(b))

Zeros(n) == [i \in 1..n |-> 0]

\* b + 1: the last 0 becomes 1 and the ones after it 0.
Increment(b) ==
    IF \A i \in DOMAIN b : b[i] = 1 THEN <<1>> \o Zeros(Len(b))
    ELSE LET last == CHOOSE i \in DOMAIN b : b[i] = 0 /\ \A j \in (i + 1)..Len(b) : b[j] = 1
         IN  [i \in DOMAIN b |-> IF i < last THEN b[i] ELSE IF i = last THEN 1 ELSE 0]

\* An integer as digits of LimbBits bits, least significant first.
LimbBits == 12
LimbBase == 2^LimbBits

ToLimbs(b) ==
    [j \in 1..((Len(b) + LimbBits - 1) \div LimbBits) |->
        LET hi == Len(b) - LimbBits * (j - 1)
            lo == IF hi > LimbBits THEN hi - LimbBits + 1 ELSE 1
        IN  BitsToNat(SubSeq(b, lo, hi))]

FromLimbs(limbs) ==
    StripZeros([i \in 1..(LimbBits * Len(limbs)) |->
                  LET p == LimbBits * Len(limbs) - i
                  IN  (limbs[p \div LimbBits + 1] \div 2^(p % LimbBits)) % 2])

\* limbs * c + carry, digit by digit.
RECURSIVE MulLimbs(_, _, _)
MulLimbs(limbs, c, carry) ==
    IF limbs = <<>> THEN (IF carry = 0 THEN <<>> ELSE <<carry>>)
    ELSE LET v == limbs[1] * c + carry
         IN  <<v % LimbBase>> \o MulLimbs(Tail(limbs), c, v \div LimbBase)

\* The exact product of the integer b and the small integer c.
Times(b, c) == FromLimbs(MulLimbs(ToLimbs(b), c, 0))

\* Rounding of the integer b (leading bit 1; sticky tells that the exact
\* value has further non-zero bits below b) to SignificandBits bits:
\* the kept bits and the number of low bits that were dropped.
Round(b, sticky) ==
    IF Len(b) <= SignificandBits THEN [bits |-> b, dropped |-> 0]
    ELSE LET kept == SubSeq(b, 1, SignificandBits)
             guard == b[SignificandBits + 1]
             rest == sticky \/ \E i \in (SignificandBits + 2)..Len(b) : b[i] = 1
             up == guard = 1 /\ (rest \/ kept[SignificandBits] = 1)
             m == IF up THEN Increment(kept) ELSE kept
         IN  IF Len(m) > SignificandBits
             THEN [bits |-> SubSeq(m, 1, SignificandBits),
                   dropped |-> Len(b) - SignificandBits + 1]
             ELSE [bits |-> m, dropped |-> Len(b) - SignificandBits]

\* The shift that brings k / n into [1, 2), for 1 <= k <= n.
RECURSIVE ShiftCount(_, _)
ShiftCount(k, n) == IF k >= n THEN 0 ELSE 1 + ShiftCount(2 * k, n)

\* count bits of the quotient r / n (r < 2n) by long division, and what is
\* left: each bit is r >= n, and 2 * (r - bit * n) goes on to the next bit.
RECURSIVE DivBits(_, _, _)
DivBits(r, n, count) ==
    IF count = 0 THEN [bits |-> <<>>, rem |-> r]
    ELSE IF count = 1
    THEN LET bit == IF r >= n THEN 1 ELSE 0
         IN  [bits |-> <<bit>>, rem |-> 2 * (r - bit * n)]
    ELSE LET first == DivBits(r, n, count \div 2)
             second == DivBits(first.rem, n, count - count \div 2)
         IN  [bits |-> first.bits \o second.bits, rem |-> second.rem]

\* k / n for integers 1 <= k <= n, as Python's true division gives it.
TrueDiv(k, n) ==
    LET e == ShiftCount(k, n)
        d == DivBits(k * 2^e, n, SignificandBits + 1)
        r == Round(d.bits, d.rem # 0)
    IN  [bits |-> r.bits, frac |-> (SignificandBits + e) - r.dropped]

\* x * c for a double x and a small integer c (c is exact as a double).
FloatTimes(x, c) ==
    LET r == Round(Times(x.bits, c), FALSE)
    IN  [bits |-> r.bits, frac |-> x.frac - r.dropped]

\* int(x) for a double x >= 0: the integer part.
IntOf(x) == BitsToNat(SubSeq(x.bits, 1, Len(x.bits) - x.frac))

\* ---------------------------------------------------------------- workflow
\* int(((idx + 1) / total_tools) * 100), in double arithmetic.
FloatProgress(done, total_tools) == IntOf(FloatTimes(TrueDiv(done, total_tools), 100))

\* The values of the expression for every list length of the model,
\* computed once.
ProgressTable ==
    [total_tools \in 1..MaxProgressTools |->
        [done \in 1..total_tools |-> FloatProgress(done, total_tools)]]

Progress(done, total_tools) == ProgressTable[total_tools][done]

NewTask(apk_id, tools) ==
    [apk_id |-> apk_id, tools |-> tools, pc |-> "queued", idx |-> 0,
     results |-> <<>>, has_critical_errors |-> FALSE, unknown_tools |-> <<>>,
     tools_with_actual_analysis |-> <<>>, log |-> <<>>]

\* Analysed with a slip: a result that is an error is not stored.
Analysed_DropsErrors(t, tool, result) ==
    IF HasError(result)
    THEN [t EXCEPT !.tools_with_actual_analysis = Append(@, tool),
                   !.has_critical_errors = TRUE]
    ELSE [t EXCEPT !.results = DictSet(@, tool, result),
                   !.tools_with_actual_analysis = Append(@, tool)]

\* One branch of the if/elif chain of lines 291-330: the task's locals after
\* the tool's result is stored.
Analysed(t, tool, result) ==
    [t EXCEPT !.results = DictSet(@, tool, result),
              !.tools_with_actual_analysis = Append(@, tool),
              !.has_critical_errors = @ \/ HasError(result)]

\* The result the chain computes for the tool (the adapter's, the fixed
\* pending entry, or the unknown-tool error).
ToolResult(apk_id, tool, env) ==
    CASE tool = "jadx" -> run_jadx(env, OutputDir(apk_id, "jadx_output"))
      [] tool = "apktool" -> run_apktool(env, OutputDir(apk_id, "apktool_output"))
      [] tool = "quark" -> run_quark(env)
      [] tool = "androguard" -> run_androguard(env)
      [] tool = "frida" -> frida_result
      [] tool = "mitmproxy" -> mitmproxy_result
      [] OTHER -> [error |-> <<"Unknown tool: ", tool>>]

AnalysisTools == {"jadx", "apktool", "quark", "androguard"}

\* RunTool with a slip: the tools without autonomous execution are counted
\* as tools that performed analysis.
RunTool_PendingCounts(t, tool, result) ==
    IF tool \in AnalysisTools THEN Analysed(t, tool, result)
    ELSE IF tool \in pending_only_tools
    THEN [t EXCEPT !.results = DictSet(@, tool, result),
                   !.tools_with_actual_analysis = Append(@, tool)]
    ELSE [t EXCEPT !.unknown_tools = Append(@, tool),
                   !.results = DictSet(@, tool, result),
                   !.has_critical_errors = TRUE]

\* RunTool with a slip: an unknown name does not set has_critical_errors.
RunTool_UnknownNotCritical(t, tool, result) ==
    IF tool \in AnalysisTools THEN Analysed(t, tool, result)
    ELSE IF tool \in pending_only_tools THEN [t EXCEPT !.results = DictSet(@, tool, result)]
    ELSE [t EXCEPT !.unknown_tools = Append(@, tool),
                   !.results = DictSet(@, tool, result)]

RunTool(t, tool, result) ==
    IF tool \in AnalysisTools THEN Analysed(t, tool, result)
    ELSE IF tool \in pending_only_tools THEN [t EXCEPT !.results = DictSet(@, tool, result)]
    ELSE [t EXCEPT !.unknown_tools = Append(@, tool),
                   !.results = DictSet(@, tool, result),
                   !.has_critical_errors = TRUE]

\* The commands run_quark invoked during a pass (none in a pass of another tool).
QuarkCalls(tool, env) == IF tool = "quark" THEN QuarkRun(env).calls ELSE <<>>

\* LoopBody with a slip: every pass publishes the results collected so far.
LoopBody_PublishesResults(status, t, env) ==
    LET tool == t.tools[t.idx + 1]
        result == ToolResult(t.apk_id, tool, env)
        t2 == RunTool(t, tool, result)
    IN  [status |-> [status EXCEPT !.current_tool = Some(tool),
                                   !.progress = Progress(t.idx + 1, Len(t.tools)),
                                   !.results = Some(t2.results)],
         task |-> [t2 EXCEPT !.idx = @ + 1, !.pc = "sleeping",
                             !.log = Append(@, [tool |-> tool, result |-> result,
                                                quark_calls |-> QuarkCalls(tool, env)])]]

\* LoopBody with a slip: the loop walks the list from its end.
LoopBody_FromTheEnd(status, t, env) ==
    LET tool == t.tools[Len(t.tools) - t.idx]
        result == ToolResult(t.apk_id, tool, env)
        t2 == RunTool(t, tool, result)
    IN  [status |-> [status EXCEPT !.current_tool = Some(tool),
                                   !.progress = Progress(t.idx + 1, Len(t.tools))],
         task |-> [t2 EXCEPT !.idx = @ + 1, !.pc = "sleeping",
                             !.log = Append(@, [tool |-> tool, result |-> result,
                                                quark_calls |-> QuarkCalls(tool, env)])]]

\* One pass of the for loop (lines 286-339), up to the sleep: a pair of the
\* status record and the task's locals.  log is the history of the loop: the
\* tool of each pass, the result the pass stored and the commands run_quark
\* invoked in it.
LoopBody(status, t, env) ==
    LET tool == t.tools[t.idx + 1]
        result == ToolResult(t.apk_id, tool, env)
        t2 == RunTool(t, tool, result)
    IN  [status |-> [status EXCEPT !.current_tool = Some(tool),
                                   !.progress = Progress(t.idx + 1, Len(t.tools))],
         task |-> [t2 EXCEPT !.idx = @ + 1, !.pc = "sleeping",
                             !.log = Append(@, [tool |-> tool, result |-> result,
                                                quark_calls |-> QuarkCalls(tool, env)])]]

IsErrorEntry(e) == HasError(e.val)

\* ErrorMessages with a slip: the summary of the unknown names is left out.
ErrorMessages_NoSummary(t) ==
    LET errs == SelectSeq(t.results, IsErrorEntry)
    IN  [i \in DOMAIN errs |-> <<errs[i].key, ": ">> \o errs[i].val.error]

ErrorMessages(t) ==
    LET unknown == IF t.unknown_tools # <<>>
                   THEN << <<"Unknown tools: ">> \o
                           Join([i \in DOMAIN t.unknown_tools |-> <<t.unknown_tools[i]>>],
                                <<", ">>) >>
                   ELSE <<>>
        errs == SelectSeq(t.results, IsErrorEntry)
    IN  unknown \o [i \in DOMAIN errs |-> <<errs[i].key, ": ">> \o errs[i].val.error]

NoAnalysisMessage ==
    <<"No actual analysis was performed. Selected tools (frida, mitmproxy) require external setup and cannot run automatically.">>

\* Finish with a slip: the test of line 345 asks for a list that is not
\* empty, so that all() is not vacuously true.
Finish_NeedsATool(status, t) ==
    LET base == [status EXCEPT !.progress = 100, !.current_tool = None]
        classified ==
            IF t.tools # <<>>
               /\ t.tools_with_actual_analysis = <<>>
               /\ \A i \in DOMAIN t.tools : t.tools[i] \in pending_only_tools
            THEN [base EXCEPT !.status = "failed", !.error = Some(NoAnalysisMessage)]
            ELSE IF t.has_critical_errors
            THEN [base EXCEPT !.status = "failed",
                              !.error = Some(IF ErrorMessages(t) # <<>>
                                             THEN Join(ErrorMessages(t), <<"; ">>)
                                             ELSE <<"Analysis failed with errors">>)]
            ELSE [base EXCEPT !.status = "completed"]
    IN  [status |-> [classified EXCEPT !.results = Some(t.results)],
         task |-> [t EXCEPT !.pc = "done"]]

\* Finish with a slip: the test of line 345 without its first conjunct and
\* with any() in place of all().
Finish_AnyPending(status, t) ==
    LET base == [status EXCEPT !.progress = 100, !.current_tool = None]
        classified ==
            IF \E i \in DOMAIN t.tools : t.tools[i] \in pending_only_tools
            THEN [base EXCEPT !.status = "failed", !.error = Some(NoAnalysisMessage)]
            ELSE IF t.has_critical_errors
            THEN [base EXCEPT !.status = "failed",
                              !.error = Some(IF ErrorMessages(t) # <<>>
                                             THEN Join(ErrorMessages(t), <<"; ">>)
                                             ELSE <<"Analysis failed with errors">>)]
            ELSE [base EXCEPT !.status = "completed"]
    IN  [status |-> [classified EXCEPT !.results = Some(t.results)],
         task |-> [t EXCEPT !.pc = "done"]]

\* Lines 341-366: the final record.
Finish(status, t) ==
    LET base == [status EXCEPT !.progress = 100, !.current_tool = None]
        classified ==
            IF t.tools_with_actual_analysis = <<>>
               /\ \A i \in DOMAIN t.tools : t.tools[i] \in pending_only_tools
            THEN [base EXCEPT !.status = "failed", !.error = Some(NoAnalysisMessage)]
            ELSE IF t.has_critical_errors
            THEN [base EXCEPT !.status = "failed",
                              !.error = Some(IF ErrorMessages(t) # <<>>
                                             THEN Join(ErrorMessages(t), <<"; ">>)
                                             ELSE <<"Analysis failed with errors">>)]
            ELSE [base EXCEPT !.status = "completed"]
    IN  [status |-> [classified EXCEPT !.results = Some(t.results)],
         task |-> [t EXCEPT !.pc = "done"]]

\* ------------------------------------------------------------------- state
VARIABLES
    analysis_status,  \* the status store: apk_id -> AnalysisStatus (one shared object per id)
    uploads,          \* apk ids whose file uploads/<id>.apk exists
    tasks,            \* the background workflow tasks, in the order they were added
    resp,             \* the response to the latest request
    polled            \* the body of the latest 200 response of GET /status

vars == <<analysis_status, uploads, tasks, resp, polled>>

Response(req, arg, code, body) == [req |-> req, arg |-> arg, code |-> code, body |-> body]

Init ==
    /\ analysis_status = <<>>
    /\ uploads = {}
    /\ tasks = <<>>
    /\ resp = Response("none", "", 0, [detail |-> ""])
    /\ polled = None

\* POST /upload: uuid4 gives an id no earlier upload has.
upload_apk(is_apk, apk_id) ==
    /\ apk_id \notin DOMAIN analysis_status
    /\ IF ~is_apk
       THEN /\ resp' = Response("upload", "", 400, [detail |-> "File must be an APK"])
            /\ UNCHANGED <<analysis_status, uploads>>
       ELSE /\ uploads' = uploads \cup {apk_id}
            /\ analysis_status' = analysis_status @@ (apk_id :> AnalysisStatus(apk_id))
            /\ resp' = Response("upload", "", 200, [apk_id |-> apk_id])
    /\ UNCHANGED <<tasks, polled>>

\* POST /analyze: adds one background task, whatever the job's status is.
start_analysis(apk_id, tools) ==
    /\ Len(tasks) < MaxRuns
    /\ IF apk_id \notin uploads
       THEN /\ resp' = Response("analyze", apk_id, 404, [detail |-> "APK not found"])
            /\ UNCHANGED tasks
       ELSE IF apk_id \notin DOMAIN analysis_status
       THEN /\ resp' = Response("analyze", apk_id, 404, [detail |-> "Analysis not initialized"])
            /\ UNCHANGED tasks
       ELSE /\ tasks' = Append(tasks, NewTask(apk_id, tools))
            /\ resp' = Response("analyze", apk_id, 200,
                                [apk_id |-> apk_id, status |-> "started", tools |-> tools])
    /\ UNCHANGED <<analysis_status, uploads, polled>>

\* run_analysis_workflow from its first line to its first suspension point
\* (or to its end, or to the exception of mkdir).
WorkflowStart(i, mkdir_ok, env) ==
    /\ tasks[i].pc = "queued"
    /\ LET t == tasks[i]
           status == [analysis_status[t.apk_id] EXCEPT !.status = "processing",
                                                       !.progress = 0]
           out == IF ~mkdir_ok THEN [status |-> status, task |-> [t EXCEPT !.pc = "raised"]]
                  ELSE IF t.tools = <<>> THEN Finish(status, t)
                  ELSE LoopBody(status, t, env)
       IN  /\ analysis_status' = [analysis_status EXCEPT ![t.apk_id] = out.status]
           /\ tasks' = [tasks EXCEPT ![i] = out.task]
    /\ UNCHANGED <<uploads, resp, polled>>

\* WorkflowResume with a slip: the step writes its record under every job id.
WorkflowResume_EveryRecord(i, env) ==
    /\ tasks[i].pc = "sleeping"
    /\ LET t == tasks[i]
           status == analysis_status[t.apk_id]
           out == IF t.idx < Len(t.tools) THEN LoopBody(status, t, env)
                  ELSE Finish(status, t)
       IN  /\ analysis_status' = [id \in DOMAIN analysis_status |->
                                    [out.status EXCEPT !.apk_id = id]]
           /\ tasks' = [tasks EXCEPT ![i] = out.task]
    /\ UNCHANGED <<uploads, resp, polled>>

\* run_analysis_workflow from the end of one sleep to the next suspension
\* point, or to its end.
WorkflowResume(i, env) ==
    /\ tasks[i].pc = "sleeping"
    /\ LET t == tasks[i]
           status == analysis_status[t.apk_id]
           out == IF t.idx < Len(t.tools) THEN LoopBody(status, t, env)
                  ELSE Finish(status, t)
       IN  /\ analysis_status' = [analysis_status EXCEPT ![t.apk_id] = out.status]
           /\ tasks' = [tasks EXCEPT ![i] = out.task]
    /\ UNCHANGED <<uploads, resp, polled>>

\* GET /status/{apk_id}
get_status(apk_id) ==
    /\ IF apk_id \notin DOMAIN analysis_status
       THEN /\ resp' = Response("status", apk_id, 404, [detail |-> "Analysis not found"])
            /\ UNCHANGED polled
       ELSE /\ resp' = Response("status", apk_id, 200, analysis_status[apk_id])
            /\ polled' = Some(analysis_status[apk_id])
    /\ UNCHANGED <<analysis_status, uploads, tasks>>

\* get_results with a slip: any finished job is served, a failed one too.
get_results_AnyFinished(apk_id) ==
    /\ resp' = IF apk_id \notin DOMAIN analysis_status
               THEN Response("results", apk_id, 404, [detail |-> "Analysis not found"])
               ELSE IF analysis_status[apk_id].status \notin {"completed", "failed"}
               THEN Response("results", apk_id, 400, [detail |-> "Analysis not completed"])
               ELSE Response("results", apk_id, 200,
                             [apk_id |-> apk_id,
                              results |-> analysis_status[apk_id].results])
    /\ UNCHANGED <<analysis_status, uploads, tasks, polled>>

\* GET /results/{apk_id}
get_results(apk_id) ==
    /\ resp' = IF apk_id \notin DOMAIN analysis_status
               THEN Response("results", apk_id, 404, [detail |-> "Analysis not found"])
               ELSE IF analysis_status[apk_id].status # "completed"
               THEN Response("results", apk_id, 400, [detail |-> "Analysis not completed"])
               ELSE Response("results", apk_id, 200,
                             [apk_id |-> apk_id,
                              results |-> analysis_status[apk_id].results])
    /\ UNCHANGED <<analysis_status, uploads, tasks, polled>>

Next ==
    \/ \E is_apk \in BOOLEAN, apk_id \in JobIds : upload_apk(is_apk, apk_id)
    \/ \E apk_id \in JobIds, tools \in SubmitLists : start_analysis(apk_id, tools)
    \/ \E i \in DOMAIN tasks, mkdir_ok \in BOOLEAN, env \in Envs : WorkflowStart(i, mkdir_ok, env)
    \/ \E i \in DOMAIN tasks, env \in Envs : WorkflowResume(i, env)
    \/ \E apk_id \in JobIds : get_status(apk_id)
    \/ \E apk_id \in JobIds : get_results(apk_id)

Spec == Init /\ [][Next]_vars

\* ------------------------------------------------- one workflow run alone
\* The server after one upload and one accepted analyze request whose task
\* has not started.
FlowId == IdNames[1]

Accepted(tools) ==
    /\ analysis_status = (FlowId :> AnalysisStatus(FlowId))
    /\ uploads = {FlowId}
    /\ tasks = <<NewTask(FlowId, tools)>>
    /\ resp = Response("analyze", FlowId, 200,
                       [apk_id |-> FlowId, status |-> "started", tools |-> tools])
    /\ polled = None

\* The workflow runs once over any list of FlowLists, with every adapter
\* outcome of FlowEnvs.
InitFlow == \E tools \in FlowLists : Accepted(tools)

NextFlow ==
    \/ \E i \in DOMAIN tasks, mkdir_ok \in BOOLEAN, env \in FlowEnvs : WorkflowStart(i, mkdir_ok, env)
    \/ \E i \in DOMAIN tasks, env \in FlowEnvs : WorkflowResume(i, env)

SpecFlow == InitFlow /\ [][NextFlow]_vars

\* The workflow runs once over a list a client submitted, while clients poll
\* and fetch, also under ids that were never uploaded.
InitClient == \E tools \in ClientLists : Accepted(tools)

NextClient ==
    \/ \E i \in DOMAIN tasks, mkdir_ok \in BOOLEAN, env \in Envs : WorkflowStart(i, mkdir_ok, env)
    \/ \E i \in DOMAIN tasks, env \in Envs : WorkflowResume(i, env)
    \/ \E apk_id \in JobIds : get_status(apk_id)
    \/ \E apk_id \in JobIds : get_results(apk_id)

SpecClient == InitClient /\ [][NextClient]_vars

\* ================================================================= claims
Terminal == {"completed", "failed"}
Range(s) == {s[i] : i \in DOMAIN s}

\* Task i ends in this step: it writes the final record of its job.
Finishing(i) == tasks[i].pc # "done" /\ tasks'[i].pc = "done"
FinalRecord(i) == analysis_status'[tasks[i].apk_id]

\* This step is a GET /status of the job the previous successful poll was about.
NextPollOfSameJob ==
    /\ polled # None
    /\ polled' # None
    /\ polled' # polled
    /\ polled'[1].apk_id = polled[1].apk_id

StatusMayFollow(a, b) ==
    CASE a = "pending" -> b \in {"pending", "processing", "completed", "failed"}
      [] a = "processing" -> b \in {"processing", "completed", "failed"}
      [] OTHER -> b = a

\* C1: between two polls of a job the status only moves along
\* pending -> processing -> completed | failed; after a poll that returned
\* completed or failed no later poll returns another status.
C1_StatusOnlyMovesForward ==
    [][NextPollOfSameJob => StatusMayFollow(polled[1].status, polled'[1].status)]_vars

\* C2: the progress successive polls of a job return never decreases, and a
\* record whose status is completed or failed has progress 100.
C2_ProgressMonotoneAnd100WhenTerminal ==
    [][/\ NextPollOfSameJob => polled[1].progress <= polled'[1].progress
       /\ \A id \in DOMAIN analysis_status' :
             analysis_status'[id].status \in Terminal => analysis_status'[id].progress = 100]_vars

\* C3: when a workflow ends, the record's results hold exactly one entry for
\* every name of the submitted list, and every tool of the list was run, in
\* list order, whatever the earlier tools returned.
C3_EveryToolHasOneEntry ==
    [][\A i \in DOMAIN tasks : Finishing(i) =>
          /\ FinalRecord(i).status \in Terminal
          /\ FinalRecord(i).results # None
          /\ Keys(FinalRecord(i).results[1]) = Range(tasks[i].tools)
          /\ Len(FinalRecord(i).results[1]) = Cardinality(Range(tasks[i].tools))
          /\ Len(tasks'[i].log) = Len(tasks[i].tools)
          /\ \A k \in DOMAIN tasks[i].tools : tasks'[i].log[k].tool = tasks[i].tools[k]]_vars

\* C3 witness: a finished run whose first tool returned an error and whose
\* second tool ran and succeeded.
C3_Witness ==
    \E i \in DOMAIN tasks :
        /\ tasks[i].pc = "done"
        /\ Len(tasks[i].log) >= 2
        /\ HasError(tasks[i].log[1].result)
        /\ ~HasError(tasks[i].log[2].result)
        /\ tasks[i].log[2].result.status = "success"
        /\ Len(tasks[i].results) = 2

\* C4: for a list with at least one name outside frida / mitmproxy, the run
\* ends failed if and only if some tool of the run returned an error
\* (an unknown-tool entry included), and completed otherwise.
C4_FailedIffSomeError ==
    [][\A i \in DOMAIN tasks :
          (Finishing(i) /\ \E k \in DOMAIN tasks[i].tools : tasks[i].tools[k] \notin pending_only_tools) =>
              /\ FinalRecord(i).status \in Terminal
              /\ FinalRecord(i).status = "failed" <=>
                     \E k \in DOMAIN tasks'[i].log : HasError(tasks'[i].log[k].result)]_vars

\* C4 witness: a mixed request, one tool only pending and one successful,
\* that ended completed.
C4_Witness ==
    \E i \in DOMAIN tasks :
        /\ tasks[i].pc = "done"
        /\ \E k \in DOMAIN tasks[i].log : tasks[i].log[k].result = frida_result
        /\ \E k \in DOMAIN tasks[i].log : tasks[i].log[k].tool \in AnalysisTools
        /\ analysis_status[tasks[i].apk_id].status = "completed"

\* C5: a list made only of frida / mitmproxy ends failed with the message
\* "No actual analysis was performed ...", and every entry of results is a
\* pending result, none an error.
C5_OnlyPendingToolsFail ==
    [][\A i \in DOMAIN tasks :
          (Finishing(i) /\ \A k \in DOMAIN tasks[i].tools : tasks[i].tools[k] \in pending_only_tools) =>
              /\ FinalRecord(i).status = "failed"
              /\ FinalRecord(i).error = Some(NoAnalysisMessage)
              /\ \A e \in Range(FinalRecord(i).results[1]) :
                    ~HasError(e.val) /\ e.val.status = "pending"]_vars

\* C5 witness: the run of <<mitmproxy, frida>> has ended.
C5_Witness ==
    \E i \in DOMAIN tasks :
        /\ tasks[i].pc = "done"
        /\ tasks[i].tools = <<"mitmproxy", "frida">>
        /\ Len(analysis_status[tasks[i].apk_id].results[1]) = 2

\* C6: a name the workflow does not know, anywhere in the list, does not stop
\* the run: results has the entry "Unknown tool: <name>" under the name, every
\* listed tool has its entry, and the run ends failed.
C6_UnknownToolFailsJob ==
    [][\A i \in DOMAIN tasks : Finishing(i) =>
          \A k \in DOMAIN tasks[i].tools :
              tasks[i].tools[k] \notin (AnalysisTools \cup pending_only_tools) =>
                  /\ FinalRecord(i).status = "failed"
                  /\ Len(tasks'[i].log) = Len(tasks[i].tools)
                  /\ Keys(FinalRecord(i).results[1]) = Range(tasks[i].tools)
                  /\ Get(FinalRecord(i).results[1], tasks[i].tools[k])
                        = [error |-> <<"Unknown tool: ", tasks[i].tools[k]>>]]_vars

\* C6 witness: an unknown name first, then only tools without autonomous
\* execution, and the run has ended.
C6_Witness ==
    \E i \in DOMAIN tasks :
        /\ tasks[i].pc = "done"
        /\ Len(tasks[i].tools) >= 2
        /\ tasks[i].tools[1] = "objection"
        /\ \A k \in 2..Len(tasks[i].tools) : tasks[i].tools[k] \in pending_only_tools
        /\ Len(tasks[i].results) = Len(tasks[i].tools)

\* The strings "<tool>: <message>" of the error entries of a results map, in
\* the order of its keys.
RECURSIVE PerToolErrors(_)
PerToolErrors(results) ==
    IF results = <<>> THEN <<>>
    ELSE (IF HasError(Head(results).val)
          THEN << <<Head(results).key, ": ">> \o Head(results).val.error >>
          ELSE <<>>) \o PerToolErrors(Tail(results))

FailedByErrors(i) ==
    /\ Finishing(i)
    /\ FinalRecord(i).status = "failed"
    /\ \E k \in DOMAIN tasks[i].tools : tasks[i].tools[k] \notin pending_only_tools

\* C7 as stated: the error of a run failed by tool errors is the strings
\* "<tool>: <message>" of the error entries of results, and nothing else,
\* joined by "; ".
C7_ErrorIsJoinedToolErrors ==
    [][\A i \in DOMAIN tasks : FailedByErrors(i) =>
          FinalRecord(i).error = Some(Join(PerToolErrors(FinalRecord(i).results[1]), <<"; ">>))]_vars

IsUnknownName(tool) == tool \notin (AnalysisTools \cup pending_only_tools)

\* C7 amended: the error is the "; "-join of, first, "Unknown tools: " with
\* the unknown names of the list joined by ", " (when the list has one), then
\* the strings "<tool>: <message>" of the error entries of results in key
\* order; when there is neither, it is "Analysis failed with errors".
C7_ErrorIsSummaryThenToolErrors ==
    [][\A i \in DOMAIN tasks : FailedByErrors(i) =>
          LET names == SelectSeq(tasks[i].tools, IsUnknownName)
              summary == IF names = <<>> THEN <<>>
                         ELSE << <<"Unknown tools: ">> \o
                                 Join([k \in DOMAIN names |-> <<names[k]>>], <<", ">>) >>
              parts == summary \o PerToolErrors(FinalRecord(i).results[1])
          IN  FinalRecord(i).error =
                  Some(IF parts = <<>> THEN <<"Analysis failed with errors">>
                       ELSE Join(parts, <<"; ">>))]_vars

\* C7 witness: a run with an unknown name and a failed adapter has ended.
C7_Witness ==
    \E i \in DOMAIN tasks :
        /\ tasks[i].pc = "done"
        /\ tasks[i].unknown_tools # <<>>
        /\ \E k \in DOMAIN tasks[i].log :
              tasks[i].log[k].tool \in AnalysisTools /\ HasError(tasks[i].log[k].result)
        /\ analysis_status[tasks[i].apk_id].status = "failed"

\* C8: GET /results answers 200 with the stored results only when the job is
\* completed at the call, 400 when it is pending, processing or failed, 404
\* for an unknown id (as GET /status does), and never changes the store.
C8_ResultsOnlyWhenCompleted ==
    [][/\ (resp' # resp /\ resp'.req = "results") =>
             /\ analysis_status' = analysis_status
             /\ tasks' = tasks
             /\ IF resp'.arg \notin DOMAIN analysis_status
                THEN resp'.code = 404
                ELSE IF analysis_status[resp'.arg].status = "completed"
                THEN /\ resp'.code = 200
                     /\ resp'.body.results = analysis_status[resp'.arg].results
                ELSE resp'.code = 400 /\ "results" \notin DOMAIN resp'.body
       /\ (resp' # resp /\ resp'.req = "status" /\ resp'.arg \notin DOMAIN analysis_status) =>
             resp'.code = 404]_vars

\* C8 witness: GET /results was refused for a failed job whose record holds
\* results.
C8_Witness ==
    /\ resp.req = "results"
    /\ resp.code = 400
    /\ resp.arg \in DOMAIN analysis_status
    /\ analysis_status[resp.arg].status = "failed"
    /\ analysis_status[resp.arg].results # None

\* C9: after a poll that returned completed or failed, every later poll of
\* the job returns the same snapshot, field by field.
C9_TerminalSnapshotIsFinal ==
    [][(NextPollOfSameJob /\ polled[1].status \in Terminal) => polled' = polled]_vars

\* C10: an analyze request for a job whose status is processing is refused
\* with a conflict and adds no task, so a job never has two started,
\* unfinished workflow tasks.
C10_DuplicateSubmissionRejected ==
    [][/\ \A id \in DOMAIN analysis_status :
             (resp' # resp /\ resp'.req = "analyze" /\ resp'.arg = id
              /\ analysis_status[id].status = "processing") =>
                 resp'.code = 409 /\ tasks' = tasks
       /\ \A i, j \in DOMAIN tasks' :
             (i # j /\ tasks'[i].apk_id = tasks'[j].apk_id) =>
                 ~(tasks'[i].pc = "sleeping" /\ tasks'[j].pc = "sleeping")]_vars

\* A record that one update step would write as a whole: the record of
\* upload, a record of a run in progress (no results, no error yet), or a
\* final record (no current tool, progress 100, results, an error exactly
\* when failed).
WrittenByOneStep(rec) ==
    CASE rec.status = "pending" ->
            rec.progress = 0 /\ rec.current_tool = None /\ rec.results = None /\ rec.error = None
      [] rec.status = "processing" -> rec.results = None /\ rec.error = None
      [] OTHER ->
            /\ rec.current_tool = None
            /\ rec.progress = 100
            /\ rec.results # None
            /\ (rec.error # None) <=> (rec.status = "failed")

\* C11: every snapshot a poll returns is the record as one update step left
\* it: never a terminal status with a current tool or a progress below 100,
\* never processing together with final results or an error.
C11_PollSeesOneUpdateStep == polled # None => WrittenByOneStep(polled[1])

\* ------------------------------------------------ two jobs side by side
\* The server after two uploads and one accepted analyze request for each,
\* neither task started: the two workflows then interleave at their sleeps.
JobA == IdNames[1]
JobB == IdNames[2]

InitJobs ==
    \E toolsA \in SubmitLists, toolsB \in SubmitLists :
        /\ analysis_status = (JobA :> AnalysisStatus(JobA)) @@ (JobB :> AnalysisStatus(JobB))
        /\ uploads = {JobA, JobB}
        /\ tasks = <<NewTask(JobA, toolsA), NewTask(JobB, toolsB)>>
        /\ resp = Response("analyze", JobB, 200,
                           [apk_id |-> JobB, status |-> "started", tools |-> toolsB])
        /\ polled = None

NextJobs ==
    \/ \E i \in DOMAIN tasks, mkdir_ok \in BOOLEAN, env \in Envs : WorkflowStart(i, mkdir_ok, env)
    \/ \E i \in DOMAIN tasks, env \in Envs : WorkflowResume(i, env)

SpecJobs == InitJobs /\ [][NextJobs]_vars

\* C12: a step of the workflow of one job leaves the record of every other
\* job as it was, in every interleaving of the workflows.
C12_StepLeavesOtherJobsAlone ==
    [][\A i \in DOMAIN tasks :
          tasks'[i] # tasks[i] =>
              /\ DOMAIN analysis_status' = DOMAIN analysis_status
              /\ \A id \in DOMAIN analysis_status \ {tasks[i].apk_id} :
                    analysis_status'[id] = analysis_status[id]]_vars

\* One job is finished while the other is between two of its tools.
C12_Witness ==
    /\ tasks[1].pc = "done"
    /\ tasks[2].pc = "sleeping"
    /\ tasks[2].idx < Len(tasks[2].tools)
    /\ analysis_status[JobA].status \in Terminal
    /\ analysis_status[JobB].status = "processing"
    /\ analysis_status[JobB].current_tool # analysis_status[JobA].current_tool

\* ------------------------------------------- one workflow run, scheduled
\* The event loop runs every task that is ready: a queued task is started
\* and a task whose sleep is over is resumed (every adapter call returns,
\* by its result or by its timeout).
WorkflowStep ==
    \/ \E i \in DOMAIN tasks, mkdir_ok \in BOOLEAN, env \in Envs : WorkflowStart(i, mkdir_ok, env)
    \/ \E i \in DOMAIN tasks, env \in Envs : WorkflowResume(i, env)

SpecFair == InitClient /\ [][NextClient]_vars /\ WF_vars(WorkflowStep)

\* C13: a job whose workflow task has started eventually has status
\* completed or failed, whatever the tool list and whatever fails on the
\* way, the creation of the output directory included.
C13_StartedJobTerminates ==
    (tasks[1].pc # "queued") ~> (analysis_status[FlowId].status \in Terminal)

\* C14: the error field of a record is set only when its status is failed,
\* also when the job is submitted again after a failed run.
C14_ErrorOnlyWhenFailed ==
    \A id \in DOMAIN analysis_status :
        analysis_status[id].error # None => analysis_status[id].status = "failed"

\* C15: the current_tool field of a record is set only when its status is
\* processing, also when two workflow tasks of one job overlap.
C15_CurrentToolOnlyWhenProcessing ==
    \A id \in DOMAIN analysis_status :
        analysis_status[id].current_tool # None => analysis_status[id].status = "processing"

\* The elements of s in the order of their first occurrence.
RECURSIVE FirstOccurrences(_)
FirstOccurrences(s) ==
    IF s = <<>> THEN <<>>
    ELSE LET r == FirstOccurrences(SubSeq(s, 1, Len(s) - 1))
         IN  IF s[Len(s)] \in Range(r) THEN r ELSE Append(r, s[Len(s)])

KeySeq(d) == [j \in DOMAIN d |-> d[j].key]

\* The positions of the list a snapshot taken during the loop can stand for.
PollPos(rec, tools) ==
    {k \in DOMAIN tools : /\ rec.current_tool = Some(tools[k])
                          /\ rec.progress = Progress(k, Len(tools))}

\* C16: within one run the tools run one after another in list order: when
\* pass k starts, the results of the tools 1..k-1 are recorded and the pass
\* runs tool k and shows it as current_tool; the current_tool values two
\* successive polls return stand at increasing positions of the list; the
\* keys of the final results map are in list order.
C16_ToolsRunInListOrder ==
    [][/\ \A i \in DOMAIN tasks :
             tasks'[i].idx = tasks[i].idx + 1 =>
                 LET t == tasks[i]
                     k == t.idx + 1
                 IN  /\ Len(t.log) = k - 1
                     /\ \A j \in 1..(k - 1) : /\ t.log[j].tool = t.tools[j]
                                              /\ t.tools[j] \in Keys(t.results)
                     /\ Len(tasks'[i].log) = k
                     /\ tasks'[i].log[k].tool = t.tools[k]
                     /\ analysis_status'[t.apk_id].current_tool = Some(t.tools[k])
       /\ \A i \in DOMAIN tasks :
             Finishing(i) => KeySeq(FinalRecord(i).results[1]) = FirstOccurrences(tasks[i].tools)
       /\ (/\ NextPollOfSameJob
           /\ polled[1].current_tool # None
           /\ polled'[1].current_tool # None)
          => \E j \in PollPos(polled[1], tasks[1].tools),
                k \in PollPos(polled'[1], tasks[1].tools) : j < k]_vars

\* A run of three tools with a repeated name has ended, and the latest poll
\* saw its second tool.
C16_Witness ==
    /\ tasks[1].pc = "done"
    /\ Len(tasks[1].tools) = 3
    /\ tasks[1].tools[1] = tasks[1].tools[3]
    /\ tasks[1].tools[1] # tasks[1].tools[2]
    /\ polled # None
    /\ polled[1].current_tool = Some(tasks[1].tools[2])
    /\ KeySeq(analysis_status[FlowId].results[1]) = SubSeq(tasks[1].tools, 1, 2)

\* C17: while a run is processing the stored record has no results: no
\* entry an earlier run of the same job wrote is visible.
C17_ProcessingShowsNoResults ==
    \A id \in DOMAIN analysis_status :
        analysis_status[id].status = "processing" => analysis_status[id].results = None

\* ------------------------------------------- one long run of many tools
\* The workflow runs once over a list of up to MaxProgressTools tools
\* (frida: the result needs no adapter), while a client polls.
InitProgress == \E n \in 1..MaxProgressTools : Accepted([i \in 1..n |-> "frida"])

NextProgress ==
    \/ \E i \in DOMAIN tasks, mkdir_ok \in BOOLEAN : WorkflowStart(i, mkdir_ok, EnvOk)
    \/ \E i \in DOMAIN tasks : WorkflowResume(i, EnvOk)
    \/ get_status(FlowId)

SpecProgress == InitProgress /\ [][NextProgress]_vars

\* C18: the progress stored after the k-th of n tools, which a poll returns
\* before tool k+1 starts, is the integer floor of 100 * k / n.
C18_ProgressIsFloor ==
    tasks[1].pc = "sleeping" =>
        LET floor == (100 * tasks[1].idx) \div Len(tasks[1].tools)
        IN  /\ analysis_status[FlowId].progress = floor
            /\ (polled # None /\ polled[1] = analysis_status[FlowId])
                   => polled[1].progress = floor

\* ------------------------------------------------ the rule scanner alone
\* The workflow runs once over a list of quark entries; each call of
\* run_quark meets any behaviour of the environment: the tool found or
\* not, the rule cache present or not, quark --setup and the scan ending in
\* any way, the cache present or not after the setup.
QuarkEnvs ==
    [available : BOOLEAN, proc : ProcOutcomes, manifest : {TRUE}, rules : BOOLEAN,
     setup : ProcOutcomes, rules_after : BOOLEAN, json : BOOLEAN]

InitQuark == \E tools \in SeqsUpTo({"quark"}, MaxQuarkRuns) : Accepted(tools)

NextQuark ==
    \/ \E i \in DOMAIN tasks, mkdir_ok \in BOOLEAN, env \in QuarkEnvs : WorkflowStart(i, mkdir_ok, env)
    \/ \E i \in DOMAIN tasks, env \in QuarkEnvs : WorkflowResume(i, env)

SpecQuark == InitQuark /\ [][NextQuark]_vars

\* The passes of the loop that called run_quark.
QuarkEntries ==
    {e \in UNION {Range(tasks[i].log) : i \in DOMAIN tasks} : e.tool = "quark"}

IsSetup(c) == c.cmd = "quark --setup"
IsScan(c) == c.cmd = "quark -a"
SetupFailed(c) == IsSetup(c) /\ (c.outcome # "exit0" \/ ~c.rules_after)

\* The scan is invoked only with the cache present; the setup only with the
\* cache absent, and before anything else.
ScanOnlyWithRules(e) ==
    \A j \in DOMAIN e.quark_calls :
        LET c == e.quark_calls[j]
        IN  /\ IsScan(c) => c.rules
            /\ IsSetup(c) => ~c.rules /\ j = 1

\* C19 as stated: the scan is invoked only when the rule cache exists (the
\* setup runs first when it is absent, and only then), and after a setup
\* that failed in any way (non-zero exit, timeout, exception, exit 0 with
\* the cache still absent) the adapter returns an error that carries the
\* captured setup output and does not invoke the scan.
C19_FailedSetupCarriesOutput ==
    \A e \in QuarkEntries :
        /\ ScanOnlyWithRules(e)
        /\ \A c \in Range(e.quark_calls) :
              SetupFailed(c) => /\ HasError(e.result)
                                /\ "details" \in DOMAIN e.result
                                /\ \A d \in Range(e.quark_calls) : ~IsScan(d)

\* C19, amended: as above, but the error carries the captured setup output
\* only when the setup process ended (non-zero exit, or exit 0 with the
\* cache still absent), not after a timeout or an exception of the setup.
C19_FailedSetupSkipsScan ==
    \A e \in QuarkEntries :
        /\ ScanOnlyWithRules(e)
        /\ \A c \in Range(e.quark_calls) :
              SetupFailed(c) => /\ HasError(e.result)
                                /\ ("details" \in DOMAIN e.result)
                                      <=> (c.outcome \notin {"timeout", "oserror"})
                                /\ \A d \in Range(e.quark_calls) : ~IsScan(d)

\* One call found the cache absent and its setup timed out (an error without
\* setup output, no scan); another call set the cache up and scanned.
C19_Witness ==
    /\ \E e \in QuarkEntries :
          /\ e.quark_calls = <<[cmd |-> "quark --setup", rules |-> FALSE,
                                outcome |-> "timeout", rules_after |-> FALSE]>>
          /\ HasError(e.result)
          /\ "details" \notin DOMAIN e.result
    /\ \E e \in QuarkEntries :
          /\ Len(e.quark_calls) = 2
          /\ IsSetup(e.quark_calls[1])
          /\ IsScan(e.quark_calls[2])
          /\ ~HasError(e.result)

\* What a reader of the record of a job in its first run may see: no results
\* before the run and during it, and with a terminal status the complete map
\* of the run, one entry for every name of the list.
ResultsComeWithTerminal(rec, t) ==
    \/ rec.status \in {"pending", "processing"} /\ rec.results = None
    \/ /\ rec.status \in Terminal
       /\ t.pc = "done"
       /\ rec.results = Some(t.results)
       /\ Keys(t.results) = Range(t.tools)
       /\ Len(t.log) = Len(t.tools)

\* C20: in the first run of a job the results become visible only together
\* with the terminal status: a poll returns either a processing record
\* without results or a terminal record with the complete results map of
\* the run, never a partly filled map.
C20_ResultsOnlyWithTerminalStatus ==
    /\ ResultsComeWithTerminal(analysis_status[FlowId], tasks[1])
    /\ polled # None => ResultsComeWithTerminal(polled[1], tasks[1])

\* A poll during a run of three tools returned a record without results
\* though two results were already collected; a later poll would return the
\* complete map.
C20_Witness ==
    /\ polled # None
    /\ polled[1].status = "processing"
    /\ polled[1].progress = Progress(2, 3)
    /\ Len(tasks[1].tools) = 3
    /\ tasks[1].pc = "done"
    /\ analysis_status[FlowId].status \in Terminal
    /\ Len(analysis_status[FlowId].results[1]) >= 2

\* C21: when a run ends failed for a list that is not made only of frida /
\* mitmproxy, the final results hold at least one error entry and the error
\* field names the tool of such an entry, also when a name is listed twice
\* and a later success overwrites the error entry of an earlier pass.
C21_FailedRunShowsItsErrorEntry ==
    [][\A i \in DOMAIN tasks : FailedByErrors(i) =>
          \E e \in Range(FinalRecord(i).results[1]) :
              /\ HasError(e.val)
              /\ FinalRecord(i).error # None
              /\ e.key \in Range(FinalRecord(i).error[1])]_vars

\* The final record of the run of an empty list.
EmptyListRecord(id) ==
    [apk_id |-> id, status |-> "failed", progress |-> 100, current_tool |-> None,
     results |-> Some(<<>>), error |-> Some(NoAnalysisMessage)]

\* C22: the run of an empty tool list does not raise on the tool count: no
\* pass of the loop runs and no progress is computed; once the output
\* directory is created the run goes in one stretch from the pending record
\* to the final one, failed with progress 100, an empty results map and
\* the message "No actual analysis was performed ...", and a poll of the
\* job returns the pending record or that final record.
C22_EmptyListFails ==
    [][\A i \in DOMAIN tasks :
          tasks[i].tools = <<>> =>
              /\ tasks'[i].log = <<>>
              /\ tasks'[i].pc # "sleeping"
              /\ (tasks'[i] # tasks[i] /\ tasks'[i].pc # "raised") =>
                    /\ tasks[i].pc = "queued"
                    /\ analysis_status[tasks[i].apk_id] = AnalysisStatus(tasks[i].apk_id)
                    /\ tasks'[i].pc = "done"
                    /\ FinalRecord(i) = EmptyListRecord(tasks[i].apk_id)
              /\ (polled' # None /\ polled'[1].apk_id = tasks[i].apk_id
                    /\ tasks'[i].pc # "raised") =>
                    polled'[1] \in {AnalysisStatus(tasks[i].apk_id),
                                    EmptyListRecord(tasks[i].apk_id)}]_vars

\* The run of the empty list has ended and a poll has returned its record.
C22_Witness ==
    /\ tasks[1].tools = <<>>
    /\ tasks[1].pc = "done"
    /\ analysis_status[FlowId] = EmptyListRecord(FlowId)
    /\ polled = Some(EmptyListRecord(FlowId))
====
